---- MODULE Spec2Model ----
(***************************************************************************)
(* Chain-state synchronisation scripts:                                    *)
(*   syncNFTMetadata.js   ownership sync with RPC fallback ("nft")         *)
(*   unnamed/part_000     ownership sync, single RPC        ("legacy")     *)
(*   syncSeaportOrders.js Seaport order-log sync            ("orders")     *)
(* One behaviour is one process of one of the three scripts; an ownership  *)
(* script may be started a second time on the same store.  Every await of  *)
(* the source is a suspension point: an action is the synchronous code     *)
(* that runs between two awaits.                                            *)
(***************************************************************************)
EXTENDS Integers, Sequences, FiniteSets, TLC

\* ------------------------------------------------------------------ bounds
MaxSupply == 3
MaxRuns == 2
MaxRerunSupply == 2

\* ------------------------------------------------------- program constants
\* width of one batch of concurrent processNFT tasks (20 in the source,
\* scaled so that the interleavings of one batch can be enumerated)
BATCH_SIZE == 2

Undefined == "undefined"
Null == "null"

\* the three hard-coded fallback endpoints
PUBLIC_RPCS == <<"https://rpc.apechain.com/http", "https://apechain.drpc.org", "https://33139.rpc.thirdweb.com">>

TokenIds == 0 .. (MaxSupply - 1)

VARIABLES
  prog,           \* which script this process runs
  configOk,       \* required environment variables are present
  APECHAIN_RPC,   \* process.env.APECHAIN_RPC, or Undefined
  down,           \* environment: endpoints that are unreachable
  bad,            \* environment: token ids whose reads revert everywhere
  chainSupply,    \* chain state: totalSupply()
  run,            \* number of the current process run on this store
  mainPc,         \* position of main()
  exitCode,       \* process exit code, -1 while running
  providerIndex, provider, nftContract,
  totalSupply, i, \* locals of main()
  task,           \* locals and position of processNFT(tokenId)
  tried,          \* history: endpoints each token's attempts were issued on
  served,         \* history: endpoints that answered ownerOf / tokenURI
  upserts,        \* history: upsert requests issued per token in this run
  sent,           \* history: the record of the upsert request
  store,          \* the "nfts" table, keyed by token_id
  storeBefore,    \* the table as the previous run left it
  clean,          \* history: no read, metadata fetch or upsert of this run has failed
  cleanBefore,    \* history: the previous run met no failure at all
  FROM_BLOCK,     \* process.env.FROM_BLOCK parsed, 0 when unset
  chainHead,      \* chain state: the current block number
  logChoice,      \* chain state: which event history the chain holds
  seaportContract,
  rpcK,           \* initProvider: position of the for loop in RPC_LIST
  probed,         \* history: endpoints probed by initProvider
  latestBlock,    \* local of main()
  pass,           \* 1 OrderValidated, 2 OrderFulfilled, 3 OrderCancelled
  start, end,     \* locals of queryInChunks
  retry,          \* parameter of safeQueryFilter
  events, ev,     \* the array the callback iterates, and its position
  totalActive, totalFulfilled, totalCancelled,
  subRanges,      \* history: <<pass, start, end>> of every callback invocation
  attempts,       \* history: queryFilter calls made for the current sub-range
  delays,         \* history: backoff delays of the current sub-range
  posted,         \* history: payloads POSTed, in order
  answers,        \* history: how the sink answered each POST that has settled
  firstFailed     \* history: index in subRanges of the first abandoned one, or 0

nftVars == <<run, providerIndex, provider, nftContract, totalSupply, i, task,
             tried, served, upserts, sent, store, storeBefore, clean, cleanBefore>>
envVars == <<prog, configOk, APECHAIN_RPC, down, bad, chainSupply, FROM_BLOCK,
             chainHead, logChoice>>
ordVars == <<seaportContract, rpcK, probed, latestBlock, pass, start, end, retry,
             events, ev, totalActive, totalFulfilled, totalCancelled, subRanges,
             attempts, delays, posted, answers, firstFailed>>

\* ------------------------------------------------------------ RPC LIST
RPC_LIST == <<APECHAIN_RPC>> \o PUBLIC_RPCS

\* the value of APECHAIN_RPC when it is set
ENV_RPC == "https://env.example"

\* getProvider(): the endpoint at providerIndex % length (0-based list)
getProvider(idx) == RPC_LIST[(idx % Len(RPC_LIST)) + 1]

\* ------------------------------------------------------------ chain state
\* ownerOf(tokenId) as the contract returns it (checksummed, mixed case)
ChainOwner(t) == IF t % 2 = 0 THEN "0xAbC1" ELSE "0xDeF2"

\* String.prototype.toLowerCase on the addresses above
toLowerCase(s) ==
  CASE s = "0xAbC1" -> "0xabc1"
    [] s = "0xDeF2" -> "0xdef2"
    [] OTHER -> s

\* tokenURI(tokenId) as the contract returns it: even ids are content-addressed
ChainTokenURI(t) == <<IF t % 2 = 0 THEN "ipfs://" ELSE "https://", "meta/" \o ToString(t)>>
NoURI == <<Undefined, "">>

\* the metadata document behind a token URI: token 0 has no name field
MetadataName(t) == IF t = 0 THEN Undefined ELSE "NFT #" \o ToString(t)

\* tokenURI.replace("ipfs://", "https://ipfs.io/ipfs/") when it starts with ipfs://
ToGatewayURL(uri) ==
  IF uri[1] = "ipfs://" THEN <<"https://", "ipfs.io/ipfs/" \o uri[2]>> ELSE uri

\* node-fetch only speaks http(s)
Fetchable(url) == url[1] \in {"https://", "http://"}

\* the outages the environment is drawn from: none, one fallback, two
\* fallbacks, every fallback, the configured endpoint, every endpoint; an
\* unset APECHAIN_RPC makes ethers connect to its default local node, which
\* is not there
DownSets ==
  LET P == PUBLIC_RPCS
      base == {{}, {P[1]}, {P[2], P[3]}, {P[1], P[2], P[3]},
               {APECHAIN_RPC}, {APECHAIN_RPC, P[1], P[2], P[3]}}
  IN {d \in base : APECHAIN_RPC = Undefined => Undefined \in d}

\* an RPC read of token t issued on endpoint rpc fails
ReadFails(t, rpc) == rpc \in down \/ t \in bad

\* ------------------------------------------------------------ processNFT
IdleTask == [pc |-> "idle", i |-> 0, rpc |-> Undefined, owner |-> Undefined,
             tokenURI |-> NoURI, tokenURI_HTTP |-> NoURI, success |-> FALSE,
             name |-> Undefined, metadataRes |-> "none", upsertRes |-> "none"]

NFT_CONTRACT_ADDRESS == "0xnft"

NoRecord == [token_id |-> Null, nft_contract |-> Null, owner_address |-> Null, name |-> Null]

TokenKeys == {ToString(t) : t \in TokenIds}

InFlight(t) == task[t].pc \in {"ownerOf", "tokenURI", "fetch", "upsert"}
Settled(t) == task[t].pc \in {"saved", "failed"}

\* a batch one id too wide
BatchIdsWide(i0, supply) == {id \in i0 .. (i0 + BATCH_SIZE) : id < supply}

\* ids of the batch that starts at i0
BatchIds(i0, supply) == {id \in i0 .. (i0 + BATCH_SIZE - 1) : id < supply}

\* a call of processNFT that has returned: its locals are gone, what is kept
\* is how it ended (the attempt histories cover the batch in flight)
Returned(tk) ==
  [IdleTask EXCEPT !.pc = tk.pc, !.success = tk.success, !.upsertRes = tk.upsertRes]

\* batch.map(tokenId => processNFT(tokenId)): every task of the batch runs
\* up to its first await, the ownerOf call on the current contract binding
StartBatch(i0, supply, contract) ==
  /\ task' = [t \in TokenIds |->
                IF t \in BatchIds(i0, supply)
                THEN [IdleTask EXCEPT !.pc = "ownerOf", !.rpc = contract]
                ELSE Returned(task[t])]
  /\ tried' = [t \in TokenIds |-> IF t \in BatchIds(i0, supply) THEN <<contract>> ELSE <<>>]
  /\ served' = [t \in TokenIds |-> <<Undefined, Undefined>>]
  /\ sent' = [t \in TokenIds |-> NoRecord]

\* catch of the RPC fallback loop (rotate, rebind, next iteration), or in the
\* single-RPC script the outer catch
ReadFailed(t) ==
  IF prog = "legacy"
  THEN /\ task' = [task EXCEPT ![t].pc = "failed"]
       /\ clean' = FALSE
       /\ UNCHANGED <<providerIndex, provider, nftContract, tried>>
  ELSE LET p == getProvider(providerIndex)
           n == task[t].i + 1
       IN /\ clean' = FALSE
          /\ providerIndex' = providerIndex + 1
          /\ provider' = p
          /\ nftContract' = p
          /\ IF n < Len(RPC_LIST)
             THEN /\ task' = [task EXCEPT ![t].i = n, ![t].pc = "ownerOf", ![t].rpc = p]
                  /\ tried' = [tried EXCEPT ![t] = Append(@, p)]
             ELSE /\ task' = [task EXCEPT ![t].i = n, ![t].pc = "failed"]
                  /\ UNCHANGED tried

\* owner = await nftContract.ownerOf(tokenId) settles
OwnerOfReturns(t) ==
  /\ mainPc = "batch"
  /\ task[t].pc = "ownerOf"
  /\ IF ReadFails(t, task[t].rpc)
     THEN ReadFailed(t) /\ UNCHANGED served
     ELSE /\ task' = [task EXCEPT ![t].owner = ChainOwner(t), ![t].pc = "tokenURI",
                                  ![t].rpc = nftContract]
          /\ served' = [served EXCEPT ![t] = <<task[t].rpc, Undefined>>]
          /\ UNCHANGED <<providerIndex, provider, nftContract, tried, clean>>
  /\ UNCHANGED <<run, totalSupply, i, upserts, sent, store, storeBefore, cleanBefore, mainPc, exitCode>>
  /\ UNCHANGED <<envVars, ordVars>>

\* tokenURI = await nftContract.tokenURI(tokenId) settles; on success the
\* URI is rewritten and the metadata fetch is issued
TokenURIReturns(t) ==
  /\ mainPc = "batch"
  /\ task[t].pc = "tokenURI"
  /\ IF ReadFails(t, task[t].rpc)
     THEN ReadFailed(t) /\ UNCHANGED served
     ELSE /\ task' = [task EXCEPT ![t].tokenURI = ChainTokenURI(t),
                                  ![t].success = TRUE,
                                  ![t].tokenURI_HTTP =
                                     IF prog = "legacy" THEN ChainTokenURI(t)
                                     ELSE ToGatewayURL(ChainTokenURI(t)),
                                  ![t].pc = "fetch", ![t].rpc = Undefined]
          /\ served' = [served EXCEPT ![t] = <<@[1], task[t].rpc>>]
          /\ UNCHANGED <<providerIndex, provider, nftContract, tried, clean>>
  /\ UNCHANGED <<run, totalSupply, i, upserts, sent, store, storeBefore, cleanBefore, mainPc, exitCode>>
  /\ UNCHANGED <<envVars, ordVars>>

\* the record handed to supabase.from("nfts").upsert
OwnershipRecord(t, owner, name) ==
  [token_id |-> ToString(t), nft_contract |-> NFT_CONTRACT_ADDRESS,
   owner_address |-> toLowerCase(owner), name |-> name]

\* a metadata fetch without its own try/catch: the error reaches the outer catch
MetadataUncaught(ok) == IF ok THEN "upsert" ELSE "failed"

\* where processNFT goes after the metadata fetch: its own try/catch absorbs
\* the error, so the upsert follows either way
MetadataCatch(ok) == "upsert"

\* metadata.name || null, and null when the fetch or the JSON parse threw
NameOf(t, ok) == IF ok /\ MetadataName(t) # Undefined THEN MetadataName(t) ELSE Null

\* a write that is not restricted to the row of the key: every existing row
\* takes the record
UpsertUnkeyed(table, record) ==
  [k \in DOMAIN table |->
     IF k = record.token_id \/ table[k] # NoRecord THEN record ELSE table[k]]

\* upsert(record, { onConflict: "token_id" }): the row of that key is overwritten
Upsert(table, record) == [table EXCEPT ![record.token_id] = record]

\* the metadata fetch settles (name = metadata.name || null, or the catch
\* leaves name = null) and the upsert request is issued
FetchReturns(t) ==
  /\ mainPc = "batch"
  /\ task[t].pc = "fetch"
  /\ \E ok \in BOOLEAN :
       /\ ok => Fetchable(task[t].tokenURI_HTTP)
       /\ task' = [task EXCEPT ![t].name = NameOf(t, ok),
                                ![t].metadataRes = IF ok THEN "ok" ELSE "error",
                                ![t].pc = IF MetadataCatch(ok) = "upsert" THEN "upsert" ELSE "failed"]
       /\ IF MetadataCatch(ok) = "upsert"
          THEN /\ upserts' = [upserts EXCEPT ![t] = @ + 1]
               /\ sent' = [sent EXCEPT ![t] = OwnershipRecord(t, task[t].owner, NameOf(t, ok))]
          ELSE UNCHANGED <<upserts, sent>>
       /\ clean' = (clean /\ ok)
  /\ UNCHANGED <<run, providerIndex, provider, nftContract, totalSupply, i, tried,
                 served, store, storeBefore, cleanBefore, mainPc, exitCode>>
  /\ UNCHANGED <<envVars, ordVars>>

\* the upsert settles: the store overwrites the row of that token_id, or
\* rejects the request (supabase-js reports the error without throwing)
UpsertReturns(t) ==
  /\ mainPc = "batch"
  /\ task[t].pc = "upsert"
  /\ \E ok \in BOOLEAN :
       /\ store' = IF ok THEN Upsert(store, sent[t]) ELSE store
       /\ clean' = (clean /\ ok)
       /\ task' = [task EXCEPT ![t].pc = "saved",
                                ![t].upsertRes = IF ok THEN "ok" ELSE "rejected"]
  /\ UNCHANGED <<run, providerIndex, provider, nftContract, totalSupply, i, tried,
                 served, upserts, sent, storeBefore, cleanBefore, mainPc, exitCode>>
  /\ UNCHANGED <<envVars, ordVars>>

\* ------------------------------------------------------------------ main
\* module evaluation up to the first await of main(): the clients are
\* constructed (this throws without configuration), the first provider is
\* taken from the list and totalSupply() is called on it
Load ==
  /\ prog \in {"nft", "legacy"}
  /\ mainPc = "load"
  /\ IF ~configOk
     THEN /\ mainPc' = "exited"
          /\ exitCode' = 1
          /\ UNCHANGED <<providerIndex, provider, nftContract>>
     ELSE /\ mainPc' = "totalSupply"
          /\ exitCode' = exitCode
          /\ IF prog = "legacy"
             THEN /\ provider' = APECHAIN_RPC
                  /\ nftContract' = APECHAIN_RPC
                  /\ UNCHANGED providerIndex
             ELSE /\ provider' = getProvider(providerIndex)
                  /\ nftContract' = getProvider(providerIndex)
                  /\ providerIndex' = providerIndex + 1
  /\ UNCHANGED <<run, totalSupply, i, task, tried, served, upserts, sent, store,
                 storeBefore, clean, cleanBefore>>
  /\ UNCHANGED <<envVars, ordVars>>

\* const totalSupply = await nftContract.totalSupply() settles: the catch of
\* main exits with 1, otherwise the first batch is started (or the loop is
\* skipped)
TotalSupplyReturns ==
  /\ mainPc = "totalSupply"
  /\ IF nftContract \in down
     THEN /\ mainPc' = "exited"
          /\ exitCode' = 1
          /\ UNCHANGED <<totalSupply, i, task, tried, served, sent>>
     ELSE /\ totalSupply' = chainSupply
          /\ i' = 0
          /\ IF 0 < chainSupply
             THEN /\ StartBatch(0, chainSupply, nftContract)
                  /\ mainPc' = "batch"
                  /\ exitCode' = exitCode
             ELSE /\ mainPc' = "exited"
                  /\ exitCode' = 0
                  /\ UNCHANGED <<task, tried, served, sent>>
  /\ UNCHANGED <<run, providerIndex, provider, nftContract, upserts, store,
                 storeBefore, clean, cleanBefore>>
  /\ UNCHANGED <<envVars, ordVars>>

\* await Promise.allSettled(...) resumes once every task of the batch has
\* settled; i += BATCH_SIZE and the next batch starts, or main returns
BatchSettled ==
  /\ mainPc = "batch"
  /\ \A t \in BatchIds(i, totalSupply) : Settled(t)
  /\ i' = i + BATCH_SIZE
  /\ IF i + BATCH_SIZE < totalSupply
     THEN /\ StartBatch(i + BATCH_SIZE, totalSupply, nftContract)
          /\ UNCHANGED <<mainPc, exitCode>>
     ELSE /\ mainPc' = "exited"
          /\ exitCode' = 0
          /\ UNCHANGED <<task, tried, served, sent>>
  /\ UNCHANGED <<run, providerIndex, provider, nftContract, totalSupply, upserts,
                 store, storeBefore, clean, cleanBefore>>
  /\ UNCHANGED <<envVars, ordVars>>

\* the script is started again on the same store and the same chain state:
\* a new process, so every module-level variable starts afresh
Rerun ==
  /\ prog \in {"nft", "legacy"}
  /\ mainPc = "exited"
  /\ run < MaxRuns
  /\ run' = run + 1
  /\ exitCode = 0
  /\ storeBefore' = store
  /\ cleanBefore' = clean
  /\ clean' = TRUE
  /\ mainPc' = "load"
  /\ exitCode' = -1
  /\ providerIndex' = 0
  /\ provider' = Undefined
  /\ nftContract' = Undefined
  /\ totalSupply' = 0
  /\ i' = 0
  /\ task' = [t \in TokenIds |-> IdleTask]
  /\ tried' = [t \in TokenIds |-> <<>>]
  /\ served' = [t \in TokenIds |-> <<Undefined, Undefined>>]
  /\ upserts' = [t \in TokenIds |-> 0]
  /\ sent' = [t \in TokenIds |-> NoRecord]
  /\ UNCHANGED store
  /\ UNCHANGED <<envVars, ordVars>>

\* =================================================== syncSeaportOrders.js
\* bound: the chain head lies within MaxSpan chunk widths (plus a few blocks)
MaxSpan == 2

CHUNK == 5000

\* safeQueryFilter: retry < MAX_RETRY asks again
MAX_RETRY == 3

\* safeQueryFilter: setTimeout(r, BASE_DELAY * (retry + 1))
BASE_DELAY == 2000

SEAPORT_CONTRACT_ADDRESS == "0xseaport"

Min(a, b) == IF a < b THEN a ELSE b

\* amounts are in units of 10^17 wei; ethers.utils.formatUnits(amount, 18)
\* renders the decimal string with at least one fractional digit
formatUnits(amount) == ToString(amount \div 10) \o "." \o ToString(amount % 10)

Item(id, amount) == [identifier |-> id, startAmount |-> amount]

LogEntry(name, blk, hash, offer, consideration) ==
  [event |-> name, blockNumber |-> blk,
   args |-> [orderHash |-> hash, offerer |-> "0xAbC1", fulfiller |-> "0xDeF2",
             offer |-> offer, consideration |-> consideration]]

\* the event histories the chain may hold, in block order
History(choice) ==
  IF choice = 1
  THEN << LogEntry("OrderValidated", 1, "h1", <<Item(7, 15)>>, <<Item(0, 10)>>),
          LogEntry("OrderValidated", CHUNK + 1, "h2", <<>>, <<Item(0, 25)>>),
          LogEntry("OrderFulfilled", CHUNK + 1, "h1", <<Item(7, 15)>>, <<>>),
          LogEntry("OrderCancelled", 2 * CHUNK + 2, "h2", <<>>, <<>>) >>
  ELSE << LogEntry("OrderFulfilled", 2, "h1", <<Item(0, 1)>>, <<Item(0, 5)>>),
          LogEntry("OrderValidated", 3, "h1", <<Item(0, 1)>>, <<Item(0, 5)>>),
          LogEntry("OrderValidated", CHUNK, "h3", <<Item(9, 1)>>, <<Item(0, 0)>>),
          LogEntry("OrderCancelled", CHUNK + 1, "h1", <<>>, <<>>) >>

\* what the chain holds: nothing above its head
ChainLog ==
  LET OnChain(e) == e.blockNumber <= chainHead
  IN SelectSeq(History(logChoice), OnChain)

PassEvent(p) ==
  CASE p = 1 -> "OrderValidated" [] p = 2 -> "OrderFulfilled" [] OTHER -> "OrderCancelled"

\* the first two passes reporting each other's status
PassStatusSwapped(p) ==
  CASE p = 1 -> "fulfilled" [] p = 2 -> "active" [] OTHER -> "cancelled"

\* the status literal in the payload of pass p
PassStatus(p) ==
  CASE p = 1 -> "active" [] p = 2 -> "fulfilled" [] OTHER -> "cancelled"

\* seaportContract.queryFilter(filter, from, to): the logs of that event in
\* the block range, in block order
queryFilter(p, from, to) ==
  LET Match(e) == e.event = PassEvent(p) /\ from <= e.blockNumber /\ e.blockNumber <= to
  IN SelectSeq(ChainLog, Match)

\* the payload built without the "|| null" and ": null" defaults: a missing
\* nested element leaves the field undefined
PayloadNoDefault(p, e) ==
  [tokenId |-> IF p # 3 /\ Len(e.args.offer) > 0
               THEN ToString(e.args.offer[1].identifier)
               ELSE IF p # 3 THEN Undefined ELSE Null,
   price |-> IF p # 3 /\ Len(e.args.consideration) > 0
             THEN formatUnits(e.args.consideration[1].startAmount)
             ELSE IF p # 3 THEN Undefined ELSE Null,
   sellerAddress |-> toLowerCase(e.args.offerer),
   buyerAddress |-> IF p = 2 THEN toLowerCase(e.args.fulfiller) ELSE Null,
   orderHash |-> e.args.orderHash,
   nftContract |-> NFT_CONTRACT_ADDRESS,
   marketplaceContract |-> SEAPORT_CONTRACT_ADDRESS,
   status |-> PassStatus(p),
   onChainBlock |-> e.blockNumber]

\* the payload the callback of pass p builds for one log entry
Payload(p, e) ==
  [tokenId |-> IF p # 3 /\ Len(e.args.offer) > 0
               THEN ToString(e.args.offer[1].identifier) ELSE Null,
   price |-> IF p # 3 /\ Len(e.args.consideration) > 0
             THEN formatUnits(e.args.consideration[1].startAmount) ELSE Null,
   sellerAddress |-> toLowerCase(e.args.offerer),
   buyerAddress |-> IF p = 2 THEN toLowerCase(e.args.fulfiller) ELSE Null,
   orderHash |-> e.args.orderHash,
   nftContract |-> NFT_CONTRACT_ADDRESS,
   marketplaceContract |-> SEAPORT_CONTRACT_ADDRESS,
   status |-> PassStatus(p),
   onChainBlock |-> e.blockNumber]

\* a loop without the "if (!rpc) continue": the next entry, set or not
NextRpcNoSkip(k) == IF k < Len(RPC_LIST) THEN k + 1 ELSE 0

\* initProvider: the next entry of RPC_LIST after position k that is set, 0 if none
NextRpc(k) ==
  LET later == {j \in (k + 1) .. Len(RPC_LIST) : RPC_LIST[j] # Undefined}
  IN IF later = {} THEN 0 ELSE CHOOSE j \in later : \A m \in later : j <= m

\* a sub-range end that is not clipped to the end of the scan
ChunkEndPast(s, to) == s + CHUNK

\* end of one iteration's sub-range
ChunkEnd(s, to) == Min(s + CHUNK, to)

\* the next iteration starting on the block the last one ended on
NextStartOverlap(e) == IF e < latestBlock THEN e ELSE e + 1

\* start of the next iteration
NextStart(e) == e + 1

\* queryInChunks enters an iteration: the callback is invoked on [s, end]
\* and issues its first queryFilter
EnterChunk(p, s, to) ==
  /\ pass' = p
  /\ start' = s
  /\ end' = ChunkEnd(s, to)
  /\ retry' = 0
  /\ subRanges' = Append(subRanges, <<p, s, ChunkEnd(s, to)>>)
  /\ attempts' = 1
  /\ delays' = <<>>
  /\ events' = <<>>
  /\ ev' = 0
  /\ mainPc' = "query"
  /\ exitCode' = exitCode

\* main returns after the third pass: the process ends with code 0
Finish(s) ==
  /\ start' = s
  /\ mainPc' = "exited"
  /\ exitCode' = 0
  /\ UNCHANGED <<pass, end, retry, subRanges, attempts, delays, events, ev>>

\* the callback of [start, end] returned or threw: start = end + 1, and the
\* loop goes on, the next pass begins, or main returns
Advance ==
  IF NextStart(end) <= latestBlock
  THEN EnterChunk(pass, NextStart(end), latestBlock)
  ELSE IF pass < 3
       THEN EnterChunk(pass + 1, FROM_BLOCK, latestBlock)
       ELSE Finish(NextStart(end))

\* queryInChunks without its try/catch: the error rejects main
ChunkErrorFatal ==
  /\ mainPc' = "exited"
  /\ exitCode' = 1
  /\ UNCHANGED <<pass, start, end, retry, subRanges, attempts, delays, events, ev>>

\* catch of queryInChunks: the error is logged and the loop goes on
ChunkError == Advance

\* the environment check at the top of the script, then main() up to the
\* first probe of initProvider
LoadOrders ==
  /\ prog = "orders"
  /\ mainPc = "load"
  /\ IF ~configOk
     THEN /\ mainPc' = "exited"
          /\ exitCode' = 1
          /\ UNCHANGED <<rpcK, probed>>
     ELSE /\ mainPc' = "probe"
          /\ exitCode' = exitCode
          /\ rpcK' = NextRpc(0)
          /\ probed' = <<RPC_LIST[NextRpc(0)]>>
  /\ UNCHANGED <<seaportContract, latestBlock, pass, start, end, retry, events, ev,
                 totalActive, totalFulfilled, totalCancelled, subRanges, attempts,
                 delays, posted, answers, firstFailed>>
  /\ UNCHANGED <<envVars, nftVars>>

\* await p.getBlockNumber() of initProvider settles: the first endpoint that
\* answers becomes the provider and main goes on to ask for the latest block;
\* otherwise the next set entry is probed, and after the last one the
\* process exits with 1
ProbeReturns ==
  /\ mainPc = "probe"
  /\ IF RPC_LIST[rpcK] \notin down
     THEN /\ provider' = RPC_LIST[rpcK]
          /\ seaportContract' = RPC_LIST[rpcK]
          /\ mainPc' = "latestBlock"
          /\ UNCHANGED <<rpcK, probed, exitCode>>
     ELSE IF NextRpc(rpcK) # 0
          THEN /\ rpcK' = NextRpc(rpcK)
               /\ probed' = Append(probed, RPC_LIST[NextRpc(rpcK)])
               /\ UNCHANGED <<provider, seaportContract, mainPc, exitCode>>
          ELSE /\ mainPc' = "exited"
               /\ exitCode' = 1
               /\ UNCHANGED <<provider, seaportContract, rpcK, probed>>
  /\ UNCHANGED <<latestBlock, pass, start, end, retry, events, ev, totalActive,
                 totalFulfilled, totalCancelled, subRanges, attempts, delays, posted,
                 answers, firstFailed>>
  /\ UNCHANGED <<run, providerIndex, nftContract, totalSupply, i, task, tried, served,
                 upserts, sent, store, storeBefore, clean, cleanBefore>>
  /\ UNCHANGED envVars

\* const latestBlock = await provider.getBlockNumber() settles; a rejection
\* reaches main().catch; otherwise the first pass begins
LatestBlockReturns ==
  /\ mainPc = "latestBlock"
  /\ IF provider \in down
     THEN /\ mainPc' = "exited"
          /\ exitCode' = 1
          /\ UNCHANGED <<latestBlock, pass, start, end, retry, events, ev, subRanges,
                         attempts, delays>>
     ELSE /\ latestBlock' = chainHead
          /\ IF FROM_BLOCK <= chainHead
             THEN EnterChunk(1, FROM_BLOCK, chainHead)
             ELSE /\ mainPc' = "exited"
                  /\ exitCode' = 0
                  /\ UNCHANGED <<pass, start, end, retry, events, ev, subRanges,
                                 attempts, delays>>
  /\ UNCHANGED <<seaportContract, rpcK, probed, totalActive, totalFulfilled,
                 totalCancelled, posted, answers, firstFailed>>
  /\ UNCHANGED <<envVars, nftVars>>

\* a wrapper that asks once more than the source does
ShouldRetryOnceMore(r) == r <= MAX_RETRY

\* catch of safeQueryFilter: if (retry < 3) wait and ask again, else rethrow
ShouldRetry(r) == r < MAX_RETRY

\* the timeout before the next attempt: 2000 * (retry + 1) milliseconds
Delay(r) == BASE_DELAY * (r + 1)

\* await seaportContract.queryFilter(...) settles.  With the logs, the
\* callback POSTs the first one or returns; on an error safeQueryFilter
\* waits and asks again while retry < MAX_RETRY, else it rethrows and
\* queryInChunks logs the chunk error
QueryReturns ==
  /\ mainPc = "query"
  /\ \E ok \in BOOLEAN :
       IF ok
       THEN LET logs == queryFilter(pass, start, end)
            IN IF Len(logs) > 0
               THEN /\ events' = logs
                    /\ ev' = 1
                    /\ posted' = Append(posted, Payload(pass, logs[1]))
                    /\ mainPc' = "post"
                    /\ UNCHANGED <<pass, start, end, retry, subRanges, attempts,
                                   delays, exitCode, firstFailed>>
               ELSE /\ Advance
                    /\ UNCHANGED <<posted, firstFailed>>
       ELSE IF ShouldRetry(retry)
            THEN /\ mainPc' = "backoff"
                 /\ delays' = Append(delays, Delay(retry))
                 /\ UNCHANGED <<pass, start, end, retry, subRanges, attempts, events,
                                ev, exitCode, posted, firstFailed>>
            ELSE /\ ChunkError
                 /\ firstFailed' = IF firstFailed = 0 THEN Len(subRanges) ELSE firstFailed
                 /\ UNCHANGED posted
  /\ UNCHANGED <<seaportContract, rpcK, probed, latestBlock, totalActive,
                 totalFulfilled, totalCancelled, answers>>
  /\ UNCHANGED <<envVars, nftVars>>

\* the backoff timer fires: safeQueryFilter(filter, from, to, retry + 1)
BackoffElapsed ==
  /\ mainPc = "backoff"
  /\ retry' = retry + 1
  /\ attempts' = attempts + 1
  /\ mainPc' = "query"
  /\ UNCHANGED <<seaportContract, rpcK, probed, latestBlock, pass, start, end, events,
                 ev, totalActive, totalFulfilled, totalCancelled, subRanges, delays,
                 posted, answers, firstFailed, exitCode>>
  /\ UNCHANGED <<envVars, nftVars>>

\* how a POST to the sink may settle: a 2xx response, any other response,
\* or a network error thrown by fetch
Responses == {"2xx", "rejected", "error"}

\* postOrderEvent returns true for a 2xx response, false otherwise
postOrderEvent(res) == res = "2xx"

\* a counter that counts every POST, whatever postOrderEvent returned
CountAlways(total, counted, ok) == IF counted THEN total + 1 ELSE total

\* if (await postOrderEvent(payload)) total++, in the pass that owns the counter
Count(total, counted, ok) == IF counted /\ ok THEN total + 1 ELSE total

\* await postOrderEvent(payload) settles: true on a 2xx answer, false on a
\* rejection or a network error; the counter of the pass counts the true
\* ones, and the loop POSTs the next log or the callback returns
PostReturns ==
  /\ mainPc = "post"
  /\ \E res \in Responses :
       /\ answers' = Append(answers, res)
       /\ totalActive' = Count(totalActive, pass = 1, postOrderEvent(res))
       /\ totalFulfilled' = Count(totalFulfilled, pass = 2, postOrderEvent(res))
       /\ totalCancelled' = Count(totalCancelled, pass = 3, postOrderEvent(res))
  /\ IF ev < Len(events)
     THEN /\ ev' = ev + 1
          /\ posted' = Append(posted, Payload(pass, events[ev + 1]))
          /\ UNCHANGED <<pass, start, end, retry, subRanges, attempts, delays, events,
                         mainPc, exitCode>>
     ELSE /\ Advance
          /\ UNCHANGED posted
  /\ UNCHANGED <<seaportContract, rpcK, probed, latestBlock, firstFailed>>
  /\ UNCHANGED <<envVars, nftVars>>

\* ====================================================== initial states
\* the chain heads the order-log run is started at
HeadBlocks == {k * CHUNK + d : k \in 0 .. MaxSpan, d \in 0 .. 2}

InitOrders ==
  /\ seaportContract = Undefined
  /\ rpcK = 0
  /\ probed = <<>>
  /\ latestBlock = 0
  /\ pass = 0
  /\ start = 0
  /\ end = 0
  /\ retry = 0
  /\ events = <<>>
  /\ ev = 0
  /\ totalActive = 0
  /\ totalFulfilled = 0
  /\ totalCancelled = 0
  /\ subRanges = <<>>
  /\ attempts = 0
  /\ delays = <<>>
  /\ posted = <<>>
  /\ answers = <<>>
  /\ firstFailed = 0

InitNFT ==
  /\ run = 1
  /\ providerIndex = 0
  /\ provider = Undefined
  /\ nftContract = Undefined
  /\ totalSupply = 0
  /\ i = 0
  /\ task = [t \in TokenIds |-> IdleTask]
  /\ tried = [t \in TokenIds |-> <<>>]
  /\ served = [t \in TokenIds |-> <<Undefined, Undefined>>]
  /\ upserts = [t \in TokenIds |-> 0]
  /\ sent = [t \in TokenIds |-> NoRecord]
  /\ store = [k \in TokenKeys |-> NoRecord]
  /\ storeBefore = [k \in TokenKeys |-> NoRecord]
  /\ clean = TRUE
  /\ cleanBefore = FALSE

vars == <<envVars, nftVars, ordVars, mainPc, exitCode>>

\* the sets of reverting token ids the environment is drawn from: any of
\* the first two ids, or the last id of the collection
BadSets(supply) ==
  {b \in SUBSET (0 .. (supply - 1)) : b \subseteq {0, 1} \/ b = {supply - 1}}

\* the environment of an ownership run
EnvNFT ==
  /\ prog \in {"nft", "legacy"}
  /\ configOk \in BOOLEAN
  /\ APECHAIN_RPC \in {ENV_RPC, Undefined}
  /\ down \in DownSets
  /\ chainSupply \in 0 .. MaxSupply
  /\ bad \in BadSets(chainSupply)
  /\ FROM_BLOCK = 0
  /\ chainHead = 0
  /\ logChoice = 1

\* the environment of an order-log run: every outage on one chain, or
\* every chain on a healthy list
EnvOrders ==
  /\ prog = "orders"
  /\ bad = {}
  /\ chainSupply = 0
  /\ \/ /\ configOk \in BOOLEAN
        /\ APECHAIN_RPC \in {ENV_RPC, Undefined}
        /\ down \in DownSets
        /\ FROM_BLOCK = 0
        /\ chainHead = CHUNK + 1
        /\ logChoice = 1
     \/ /\ configOk = TRUE
        /\ APECHAIN_RPC = ENV_RPC
        /\ down = {}
        /\ FROM_BLOCK \in {0, 2}
        /\ chainHead \in HeadBlocks
        /\ logChoice \in {1, 2}

Init ==
  /\ EnvNFT \/ EnvOrders
  /\ mainPc = "load"
  /\ exitCode = -1
  /\ InitNFT
  /\ InitOrders

Next ==
  \/ Load
  \/ TotalSupplyReturns
  \/ \E t \in TokenIds : OwnerOfReturns(t)
  \/ \E t \in TokenIds : TokenURIReturns(t)
  \/ \E t \in TokenIds : FetchReturns(t)
  \/ \E t \in TokenIds : UpsertReturns(t)
  \/ BatchSettled
  \/ LoadOrders
  \/ ProbeReturns
  \/ LatestBlockReturns
  \/ QueryReturns
  \/ BackoffElapsed
  \/ PostReturns

Spec == Init /\ [][Next]_vars

\* every pending network call eventually returns or fails: a run that can
\* take a step eventually takes one
SpecLive == Init /\ [][Next]_vars /\ WF_vars(Next)

\* two (or more) ownership runs in a row on one store, unchanged chain
\* state and a small collection, the fallback endpoints all up or all down,
\* token 0 possibly reverting
InitRerun ==
  /\ Init
  /\ prog \in {"nft", "legacy"}
  /\ configOk
  /\ APECHAIN_RPC = ENV_RPC
  /\ down \in {{}, {PUBLIC_RPCS[1], PUBLIC_RPCS[2], PUBLIC_RPCS[3]}}
  /\ bad \subseteq {0}
  /\ chainSupply <= MaxRerunSupply

NextRerun ==
  \/ Load
  \/ TotalSupplyReturns
  \/ \E t \in TokenIds : OwnerOfReturns(t)
  \/ \E t \in TokenIds : TokenURIReturns(t)
  \/ \E t \in TokenIds : FetchReturns(t)
  \/ \E t \in TokenIds : UpsertReturns(t)
  \/ BatchSettled
  \/ Rerun

SpecRerun == InitRerun /\ [][NextRerun]_vars

\* ================================================================ claims
OwnershipRun == prog \in {"nft", "legacy"}

RunTokens == 0 .. (totalSupply - 1)

RpcSet == {RPC_LIST[k] : k \in 1 .. Len(RPC_LIST)}

Range(seq) == {seq[k] : k \in 1 .. Len(seq)}

\* C1 (as stated): when an ownership run has completed, every token id in
\* [0, totalSupply) has had exactly one record upserted.
C1_ExactlyOnePerToken ==
  (OwnershipRun /\ mainPc = "exited" /\ exitCode = 0) =>
     \A t \in RunTokens : upserts[t] = 1

\* C1 (amended): in one ownership run no token has more than one record
\* upserted and no id outside [0, totalSupply) has any; a settled token has
\* exactly one iff its ownerOf and tokenURI reads succeeded in one attempt,
\* also when its metadata fetch failed, and then the record carries
\* name = null; at completion every token of the range has settled.
C1_OnePerReadToken ==
  OwnershipRun =>
     /\ \A t \in TokenIds :
          /\ upserts[t] <= 1
          /\ upserts[t] = 1 => t \in RunTokens
          /\ Settled(t) => (upserts[t] = 1 <=> task[t].success)
          /\ (upserts[t] = 1 /\ t >= i) =>
                /\ sent[t] = OwnershipRecord(t, ChainOwner(t), sent[t].name)
                /\ task[t].metadataRes = "error" => sent[t].name = Null
     /\ (mainPc = "exited" /\ exitCode = 0) => \A t \in RunTokens : Settled(t)

\* C1 witness: a completed run in which a token's metadata fetch failed and
\* its record was upserted once with name = null, next to a token that was
\* given up and has none.
C1_Witness ==
  /\ prog = "nft" /\ mainPc = "exited" /\ exitCode = 0
  /\ \E t \in RunTokens :
       task[t].metadataRes = "error" /\ upserts[t] = 1 /\ sent[t].name = Null
  /\ \E t \in RunTokens : task[t].pc = "failed" /\ upserts[t] = 0

\* C2: per-token isolation.  When a fallback run has completed, a token
\* whose reads fail on every endpoint has no record, and every other token,
\* whose reads succeed on some endpoint of the list, has its record upserted.
C2_Isolation ==
  (prog = "nft" /\ mainPc = "exited" /\ exitCode = 0) =>
     \A t \in RunTokens :
        /\ t \in bad => upserts[t] = 0
        /\ (t \notin bad /\ \E r \in RpcSet : ~ReadFails(t, r)) => upserts[t] = 1

\* C3: a token is given up only after its reads were attempted on every
\* endpoint of the list, each endpoint at most once.
C3_EveryEndpointOnce ==
  \A t \in TokenIds :
     (prog = "nft" /\ task[t].pc = "failed") =>
        /\ Range(tried[t]) = RpcSet
        /\ Len(tried[t]) = Cardinality(RpcSet)

\* position of an endpoint in RPC_LIST
IndexOf(r) == CHOOSE k \in 1 .. Len(RPC_LIST) : RPC_LIST[k] = r

\* C4: rotation is round-robin in list order: after an attempt of an
\* operation failed on an endpoint, the operation's next attempt is made on
\* the endpoint that follows it in the list (wrapping around).
C4_ListOrder ==
  \A t \in TokenIds : \A k \in 1 .. (Len(tried[t]) - 1) :
     prog = "nft" =>
        IndexOf(tried[t][k + 1]) = (IndexOf(tried[t][k]) % Len(RPC_LIST)) + 1

\* the sub-ranges pass p has invoked its callback on, in order
PassRanges(p) ==
  LET OfPass(r) == r[1] = p
  IN SelectSeq(subRanges, OfPass)

\* the payloads pass p has POSTed, in order
PassPosted(p) ==
  LET OfPass(m) == m.status = PassStatus(p)
  IN SelectSeq(posted, OfPass)

CeilDiv(a, b) == (a + b - 1) \div b

\* number of blocks of [FROM_BLOCK, latestBlock]
BlockCount == latestBlock - FROM_BLOCK + 1

\* C5: when an order-log run over a range of more than CHUNK blocks has
\* completed, each pass has invoked its callback on exactly
\* ceil(range / CHUNK) sub-ranges, retries not counted.
C5_SubRangeCount ==
  (prog = "orders" /\ mainPc = "exited" /\ exitCode = 0 /\ BlockCount > CHUNK) =>
     \A p \in 1 .. 3 : Len(PassRanges(p)) = CeilDiv(BlockCount, CHUNK)

\* state part of C6
C6_Ordered ==
  prog = "orders" =>
    \A p \in 1 .. 3 :
       /\ \A j, k \in 1 .. Len(PassRanges(p)) :
            j < k => PassRanges(p)[j][3] < PassRanges(p)[k][2]
       /\ \A j, k \in 1 .. Len(PassPosted(p)) :
            j < k => PassPosted(p)[j].onChainBlock <= PassPosted(p)[k].onChainBlock
       /\ p = pass =>
            \A k \in 1 .. Len(PassPosted(p)) :
               /\ PassPosted(p)[k].onChainBlock <= end
               /\ mainPc \in {"query", "backoff"} => PassPosted(p)[k].onChainBlock < start

\* step part of C6: a sub-range is entered only by the step that settles the
\* previous sub-range's last POST, or its query when that returned no log
\* or failed for good
C6_Barrier ==
  (prog = "orders" /\ subRanges' # subRanges /\ subRanges # <<>>) =>
     \/ mainPc = "post" /\ ev = Len(events)
     \/ mainPc = "query"

\* C6: within one pass the sub-ranges are queried in strictly ascending
\* block order, the payloads POSTed are in non-decreasing block order, and
\* a sub-range is started only once the events of the previous one have all
\* been handled: while it is queried every payload of the pass POSTed so
\* far lies below it, and none ever lies above the current sub-range.
C6_AscendingOrder == []C6_Ordered /\ [][C6_Barrier]_vars

\* C6 witness: a pass has POSTed logs of two different sub-ranges.
C6_Witness ==
  /\ prog = "orders"
  /\ Len(PassRanges(1)) >= 2
  /\ \E j, k \in 1 .. Len(PassPosted(1)) :
       /\ j < k
       /\ PassPosted(1)[j].onChainBlock <= PassRanges(1)[1][3]
       /\ PassPosted(1)[k].onChainBlock >= PassRanges(1)[2][2]

\* C7: a sub-range whose query failed on every attempt has no payload
\* POSTed for it, the sub-range after it is still queried, the failure never
\* ends the run with an error, and at completion every pass has scanned up
\* to the last block of the range.
C7_FailedSubRangeSkipped ==
  (prog = "orders" /\ firstFailed # 0) =>
     LET f == subRanges[firstFailed]
     IN /\ \A k \in 1 .. Len(posted) :
             ~ ( /\ posted[k].status = PassStatus(f[1])
                 /\ f[2] <= posted[k].onChainBlock
                 /\ posted[k].onChainBlock <= f[3] )
        /\ exitCode # 1
        /\ (f[3] < latestBlock /\ firstFailed < Len(subRanges)) =>
              subRanges[firstFailed + 1] = <<f[1], f[3] + 1, ChunkEnd(f[3] + 1, latestBlock)>>
        /\ firstFailed = Len(subRanges) =>
              \/ mainPc \in {"query", "backoff", "post"}
              \/ (mainPc = "exited" /\ f[1] = 3 /\ f[3] = latestBlock)
        /\ mainPc = "exited" =>
              \A p \in 1 .. 3 : \E k \in 1 .. Len(subRanges) :
                 subRanges[k][1] = p /\ subRanges[k][3] = latestBlock

\* C7 witness: a completed run whose first abandoned sub-range held a log
\* entry, was followed by further sub-ranges, and a later one was POSTed.
C7_Witness ==
  /\ prog = "orders" /\ mainPc = "exited" /\ exitCode = 0
  /\ firstFailed # 0 /\ firstFailed < Len(subRanges)
  /\ Len(queryFilter(subRanges[firstFailed][1], subRanges[firstFailed][2],
                     subRanges[firstFailed][3])) > 0
  /\ Len(PassPosted(subRanges[firstFailed][1])) > 0

\* C9: a fallback ownership run or an order-log run ends with a non-zero
\* exit code only when configuration is missing or no endpoint of the list
\* is reachable.
C9_NonZeroOnlyOnStartupFatal ==
  (prog \in {"nft", "orders"} /\ mainPc = "exited" /\ exitCode # 0) =>
     \/ ~configOk
     \/ APECHAIN_RPC = Undefined
     \/ \A r \in RpcSet : r \in down

\* C10: at most BATCH_SIZE tasks are in flight, they are consecutive ids of
\* the batch that starts at i, every token of an earlier batch has settled
\* and no token of a later batch has started.
C10_BatchBarrier ==
  OwnershipRun =>
     /\ Cardinality({t \in TokenIds : InFlight(t)}) <= BATCH_SIZE
     /\ i % BATCH_SIZE = 0
     /\ \A t \in TokenIds :
          /\ InFlight(t) => (mainPc = "batch" /\ i <= t /\ t < i + BATCH_SIZE)
          /\ (mainPc = "batch" /\ t < i) => Settled(t)
          /\ (mainPc = "batch" /\ t >= i + BATCH_SIZE) => task[t].pc = "idle"

\* C10 witness: a later batch is in flight after a full earlier batch, one
\* of whose tasks failed, has settled.
C10_Witness ==
  /\ OwnershipRun /\ mainPc = "batch" /\ i >= BATCH_SIZE
  /\ \E t \in TokenIds : InFlight(t)
  /\ \E t \in TokenIds : t < i /\ task[t].pc = "failed"
  /\ \E t \in TokenIds : t < i /\ task[t].pc = "saved"

\* the owners and names a run may store for a key, from the unchanged chain
SameChainRecord(a, b) ==
  /\ a.token_id = b.token_id
  /\ a.nft_contract = b.nft_contract
  /\ a.owner_address = b.owner_address
  /\ (a.name # Null /\ b.name # Null) => a.name = b.name

\* C8 (as stated): a second ownership run on unchanged chain state leaves
\* the store with the records the first run left: its upserts overwrite
\* each key with the same values (here: every key is written by both runs).
C8_SecondRunIdentical ==
  ( /\ OwnershipRun /\ run > 1 /\ mainPc = "exited" /\ exitCode = 0
    /\ \A t \in RunTokens :
         task[t].upsertRes = "ok" /\ storeBefore[ToString(t)] # NoRecord )
  => store = storeBefore

\* C8 (amended): at the end of a later run on unchanged chain state every
\* row is stored under its own token_id; a row that both runs wrote has the
\* same token_id, nft_contract and owner_address, and the same name unless
\* the metadata fetch failed in one of the runs (name = null there); a row
\* the later run did not write is unchanged; and the store is identical
\* when neither run met a failed read, metadata fetch or upsert.
C8_SecondRunOverwrites ==
  (OwnershipRun /\ run > 1) =>
     /\ \A t \in TokenIds :
          LET k == ToString(t)
          IN /\ store[k] # NoRecord => store[k].token_id = k
             /\ (store[k] # NoRecord /\ storeBefore[k] # NoRecord) =>
                   SameChainRecord(store[k], storeBefore[k])
             /\ task[t].upsertRes # "ok" => store[k] = storeBefore[k]
             /\ (task[t].upsertRes = "ok" /\ t >= i) => store[k] = sent[t]
     /\ (mainPc = "exited" /\ exitCode = 0 /\ cleanBefore /\ clean) =>
           store = storeBefore

\* C8 witness: a second run without any failure after a first run without
\* any failure has completed, over at least two tokens.
C8_Witness ==
  /\ prog = "nft" /\ run > 1 /\ mainPc = "exited" /\ exitCode = 0
  /\ cleanBefore /\ clean /\ totalSupply >= 2
  /\ store = storeBefore
  /\ \A t \in RunTokens : store[ToString(t)] # NoRecord

\* the status the sink is told for a log entry
StatusOf(e) ==
  CASE e.event = "OrderValidated" -> "active"
    [] e.event = "OrderFulfilled" -> "fulfilled"
    [] OTHER -> "cancelled"

\* payload m was built from log entry e
PayloadOf(m, e) ==
  /\ m.orderHash = e.args.orderHash
  /\ m.onChainBlock = e.blockNumber
  /\ m.status = StatusOf(e)

\* C11: every payload POSTed comes from a log entry of the chain and
\* carries the status of its event type; for an OrderValidated or
\* OrderFulfilled entry tokenId is null when the offer array is empty (the
\* first identifier otherwise) and price is null when the consideration
\* array is empty (the formatted first amount otherwise).  No entry is
\* dropped: while a sub-range is POSTed every entry of its array up to the
\* current one has its payload POSTed, and a completed run that abandoned no
\* sub-range has POSTed every entry of [FROM_BLOCK, latestBlock].
C11_NullNormalization ==
  prog = "orders" =>
     /\ \A k \in 1 .. Len(posted) :
          /\ \E e \in Range(ChainLog) : PayloadOf(posted[k], e)
          /\ \A e \in Range(ChainLog) :
               (PayloadOf(posted[k], e) /\ e.event # "OrderCancelled") =>
                  /\ posted[k].tokenId =
                        IF Len(e.args.offer) = 0 THEN Null
                        ELSE ToString(e.args.offer[1].identifier)
                  /\ posted[k].price =
                        IF Len(e.args.consideration) = 0 THEN Null
                        ELSE formatUnits(e.args.consideration[1].startAmount)
     /\ mainPc = "post" =>
          \A j \in 1 .. ev : \E k \in 1 .. Len(posted) : PayloadOf(posted[k], events[j])
     /\ (mainPc = "exited" /\ exitCode = 0 /\ firstFailed = 0) =>
          \A e \in Range(ChainLog) :
             (FROM_BLOCK <= e.blockNumber /\ e.blockNumber <= latestBlock) =>
                \E k \in 1 .. Len(posted) : PayloadOf(posted[k], e)

\* C11 witness: a completed run has POSTed an active payload built from an
\* empty offer array and a fulfilled payload built from an empty
\* consideration array.
C11_Witness ==
  /\ prog = "orders" /\ mainPc = "exited" /\ exitCode = 0
  /\ \E k \in 1 .. Len(posted) :
       posted[k].status = "active" /\ posted[k].tokenId = Null /\ posted[k].price # Null
  /\ \E k \in 1 .. Len(posted) :
       posted[k].status = "fulfilled" /\ posted[k].price = Null /\ posted[k].tokenId # Null

\* number of POSTs of a status that the sink has answered 2xx
Answered2xx(status) ==
  Cardinality({k \in 1 .. Len(answers) : answers[k] = "2xx" /\ posted[k].status = status})

\* state part of C12
C12_Counted ==
  prog = "orders" =>
     /\ totalActive = Answered2xx("active")
     /\ totalFulfilled = Answered2xx("fulfilled")
     /\ totalCancelled = Answered2xx("cancelled")
     /\ Len(answers) = (IF mainPc = "post" THEN Len(posted) - 1 ELSE Len(posted))
     /\ answers # <<>> => exitCode # 1

\* step part of C12: a POST that settles without a 2xx answer leaves every
\* counter as it was, and whatever the answer, the next log entry of the
\* sub-range is POSTed by the same step
C12_Step ==
  (prog = "orders" /\ mainPc = "post" /\ answers' # answers) =>
     /\ answers'[Len(answers')] # "2xx" =>
           UNCHANGED <<totalActive, totalFulfilled, totalCancelled>>
     /\ ev < Len(events) =>
           /\ mainPc' = "post"
           /\ posted' = Append(posted, Payload(pass, events[ev + 1]))
           /\ UNCHANGED <<pass, start, end>>

\* C12: at every point of an order-log run each per-status counter equals
\* the number of payloads of that status whose POST was answered 2xx so
\* far; a rejected or failed POST changes no counter, never ends the run
\* with an error, and the next event of the sub-range is still POSTed.
C12_CountersMatch == []C12_Counted /\ [][C12_Step]_vars

\* C12 witness: a completed run in which a POST was rejected or failed, the
\* next event of the same sub-range was POSTed and answered 2xx, and the
\* counter counts that one only.
C12_Witness ==
  /\ prog = "orders" /\ mainPc = "exited" /\ exitCode = 0
  /\ Len(answers) >= 2
  /\ answers[1] # "2xx" /\ answers[2] = "2xx"
  /\ posted[1].status = "active" /\ posted[2].status = "active"
  /\ posted[2].onChainBlock <= subRanges[1][3]
  /\ totalActive = Cardinality({k \in 1 .. Len(answers) :
                                   answers[k] = "2xx" /\ posted[k].status = "active"})
  /\ totalActive < Len(PassPosted(1))

\* pass p has run its queryInChunks loop to the end
PassDone(p) == pass > p \/ (pass = p /\ mainPc = "exited" /\ exitCode = 0)

\* the blocks at both ends of the scan and around every sub-range bound
EdgeBlocks(R) ==
  {FROM_BLOCK - 1, FROM_BLOCK, latestBlock, latestBlock + 1} \cup
  UNION {{R[k][2], R[k][3], R[k][3] + 1} : k \in 1 .. Len(R)}

\* the sub-ranges of R that hold block b
Holding(R, b) == {k \in 1 .. Len(R) : R[k][2] <= b /\ b <= R[k][3]}

\* the sub-ranges R of a pass are consecutive parts of the scan
Consecutive(R, done) ==
  /\ R # <<>> => R[1][2] = FROM_BLOCK
  /\ \A k \in 1 .. Len(R) :
       /\ R[k][2] <= R[k][3]
       /\ R[k][3] <= latestBlock
       /\ k < Len(R) => R[k + 1][2] = R[k][3] + 1
  /\ (done /\ FROM_BLOCK <= latestBlock) => (R # <<>> /\ R[Len(R)][3] = latestBlock)
  /\ \A b \in EdgeBlocks(R) :
       LET n == Cardinality(Holding(R, b))
       IN /\ n <= 1
          /\ (b < FROM_BLOCK \/ b > latestBlock) => n = 0
          /\ (done /\ FROM_BLOCK <= b /\ b <= latestBlock) => n = 1

\* C13: the sub-ranges a pass invokes its callback on partition
\* [FROM_BLOCK, latestBlock]: the first starts at FROM_BLOCK, each next one
\* starts at the previous end + 1, none is empty or reaches beyond
\* latestBlock, and once the pass is done the last one ends at latestBlock,
\* so that a block of the range lies in exactly one sub-range and a block
\* outside it in none.
C13_ExactPartition ==
  prog = "orders" => \A p \in 1 .. 3 : Consecutive(PassRanges(p), PassDone(p))

\* C13 witness: a completed scan that does not start at block 0 was split
\* into two sub-ranges or more, every pass ending on the chain head.
C13_Witness ==
  /\ prog = "orders" /\ mainPc = "exited" /\ exitCode = 0
  /\ FROM_BLOCK > 0
  /\ \A p \in 1 .. 3 :
       /\ Len(PassRanges(p)) >= 2
       /\ PassRanges(p)[1][2] = FROM_BLOCK
       /\ PassRanges(p)[Len(PassRanges(p))][3] = chainHead

\* C14: every sub-range [start, end] handed to a query has start <= end
\* and covers at most CHUNK blocks (end - start + 1 <= CHUNK).
C14_WidthAtMostChunk ==
  prog = "orders" =>
     \A k \in 1 .. Len(subRanges) :
        /\ subRanges[k][2] <= subRanges[k][3]
        /\ subRanges[k][3] - subRanges[k][2] + 1 <= CHUNK

\* C15 (as stated): at most 3 queryFilter calls are issued for one
\* sub-range, and the delay before attempt k + 1 is the base delay times k.
C15_AtMostThreeAttempts ==
  prog = "orders" =>
     /\ attempts <= 3
     /\ \A k \in 1 .. Len(delays) : delays[k] = BASE_DELAY * k

\* state part of C15 (amended)
C15_Bounded ==
  prog = "orders" =>
     /\ attempts <= MAX_RETRY + 1
     /\ mainPc \in {"query", "backoff"} => attempts = retry + 1
     /\ mainPc = "query" => Len(delays) = attempts - 1
     /\ mainPc = "backoff" => Len(delays) = attempts
     /\ \A k \in 1 .. Len(delays) : delays[k] = BASE_DELAY * k
     /\ \A j, k \in 1 .. Len(delays) : j < k => delays[j] < delays[k]

\* step part of C15 (amended): a further query of the same sub-range is
\* issued only when a backoff delay has elapsed, and the failure of attempt
\* MAX_RETRY + 1 is followed by no delay and no query of that sub-range
C15_GivesUp ==
  prog = "orders" =>
     /\ (attempts' = attempts + 1 /\ subRanges' = subRanges) => mainPc = "backoff"
     /\ (mainPc = "query" /\ attempts = MAX_RETRY + 1) =>
           /\ mainPc' # "backoff"
           /\ attempts' # attempts => subRanges' # subRanges

\* C15 (amended): safeQueryFilter issues at most MAX_RETRY + 1 = 4
\* queryFilter calls for one sub-range, the first one and 3 retries; after
\* the fourth failure it gives up without a further query; the delay
\* before attempt k + 1 is the base delay times k, strictly increasing
\* across the attempts of the sub-range.
C15_BoundedRetries == []C15_Bounded /\ [][C15_GivesUp]_vars

\* C15 witness: the fourth query of a sub-range is in flight after the
\* delays 2000, 4000 and 6000.
C15_Witness ==
  /\ prog = "orders" /\ mainPc = "query"
  /\ attempts = 4
  /\ delays = <<BASE_DELAY, 2 * BASE_DELAY, 3 * BASE_DELAY>>

\* the entries of RPC_LIST that are set, in list order
SetRpcs ==
  LET IsSet(r) == r # Undefined
  IN SelectSeq(RPC_LIST, IsSet)

\* state part of C16
C16_Probed ==
  prog = "orders" =>
     /\ Len(probed) <= Len(SetRpcs)
     /\ probed = SubSeq(SetRpcs, 1, Len(probed))
     /\ \A k \in 1 .. (Len(probed) - 1) : probed[k] \in down
     /\ mainPc = "probe" => provider = Undefined
     /\ provider # Undefined =>
           /\ provider = probed[Len(probed)]
           /\ provider \notin down
           /\ seaportContract = provider
     /\ provider = Undefined =>
           /\ subRanges = <<>> /\ attempts = 0 /\ posted = <<>> /\ answers = <<>>
           /\ mainPc \in {"load", "probe", "exited"}
           /\ mainPc = "exited" => exitCode = 1
     /\ (mainPc = "exited" /\ provider = Undefined /\ configOk) =>
           /\ probed = SetRpcs
           /\ \A k \in 1 .. Len(probed) : probed[k] \in down

\* step part of C16: once a probe has succeeded nothing else is probed and
\* the provider stays
C16_ProbeOnce ==
  (prog = "orders" /\ provider # Undefined) =>
     /\ probed' = probed
     /\ provider' = provider

\* C16: initProvider probes the set entries of RPC_LIST in list order, the
\* provider becomes the first one whose probe succeeds and no later entry
\* is probed; before a probe has succeeded no query and no POST is issued,
\* and when every probe has failed the process exits with code 1.
C16_ProbeFirst == []C16_Probed /\ [][C16_ProbeOnce]_vars

\* C16 witness: the first entry failed its probe, the second one became
\* the provider, the remaining ones were never probed, and the run has
\* POSTed an event.
C16_Witness ==
  /\ prog = "orders" /\ mainPc = "exited" /\ exitCode = 0
  /\ Len(probed) = 2 /\ Len(SetRpcs) = 4
  /\ probed[1] \in down
  /\ provider = probed[2]
  /\ posted # <<>>

\* task t is suspended on a chain read of the fallback loop
Reading(t) == task[t].pc \in {"ownerOf", "tokenURI"}

\* C17: the contract binding and the rotation index are single-writer
\* during an ownership run: no two tasks that are in flight together have
\* both written them, and a task suspended on a read finds, when it
\* resumes, the binding it issued that read on.
C17_SingleWriter ==
  OwnershipRun =>
     /\ \A t1, t2 \in TokenIds :
          (t1 # t2 /\ InFlight(t1) /\ InFlight(t2)) => ~(task[t1].i > 0 /\ task[t2].i > 0)
     /\ \A t \in TokenIds : Reading(t) => task[t].rpc = nftContract

\* C19: within one attempt of processNFT the ownerOf read and the
\* tokenURI read of a token are answered by the same endpoint, whatever the
\* other tasks of the batch do in between.
C19_SameEndpoint ==
  OwnershipRun =>
     \A t \in TokenIds :
        /\ served[t][2] # Undefined => served[t][1] = served[t][2]
        /\ task[t].pc = "tokenURI" => task[t].rpc = served[t][1]

\* the pass that POSTs payloads of a status
PassOfStatus(st) ==
  CASE st = "active" -> 1 [] st = "fulfilled" -> 2 [] OTHER -> 3

\* C18 (as stated): of two payloads POSTed for the same orderHash, the one
\* with the lower block number is POSTed first, whatever their statuses.
C18_ChainOrderPerOrder ==
  prog = "orders" =>
     \A j, k \in 1 .. Len(posted) :
        (j < k /\ posted[j].orderHash = posted[k].orderHash) =>
           posted[j].onChainBlock <= posted[k].onChainBlock

\* C18 (amended): delivery follows the three passes: every active payload
\* is POSTed before every fulfilled one and every fulfilled one before
\* every cancelled one, whatever their block numbers; two payloads of the
\* same status (in particular of the same orderHash) are POSTed in block
\* order; and each payload reports the status of the event it was built
\* from, so the status of an entry does not depend on the delivery order.
C18_PassOrder ==
  prog = "orders" =>
     /\ \A j, k \in 1 .. Len(posted) :
          j < k =>
            /\ PassOfStatus(posted[j].status) <= PassOfStatus(posted[k].status)
            /\ posted[j].status = posted[k].status =>
                  posted[j].onChainBlock <= posted[k].onChainBlock
     /\ \A k \in 1 .. Len(posted) :
          /\ PassOfStatus(posted[k].status) <= pass
          /\ \E e \in Range(ChainLog) : PayloadOf(posted[k], e)

\* C18 witness: a completed run has POSTed, for one orderHash, the
\* validated entry of a higher block before the fulfilled entry of a
\* lower block.
C18_Witness ==
  /\ prog = "orders" /\ mainPc = "exited" /\ exitCode = 0
  /\ \E j, k \in 1 .. Len(posted) :
       /\ j < k
       /\ posted[j].orderHash = posted[k].orderHash
       /\ posted[j].status = "active" /\ posted[k].status = "fulfilled"
       /\ posted[j].onChainBlock > posted[k].onChainBlock

\* the run ends
Terminated == mainPc = "exited"

\* the loop bounds C20 names, as stated
C20_LoopBounds ==
  /\ prog = "orders" =>
       /\ \A p \in 1 .. 3 : \A k \in 1 .. (Len(PassRanges(p)) - 1) :
             PassRanges(p)[k][2] < PassRanges(p)[k + 1][2]
       /\ \A k \in 1 .. Len(subRanges) : subRanges[k][2] <= latestBlock
       /\ (mainPc = "exited" /\ FROM_BLOCK > chainHead) => (subRanges = <<>> /\ attempts = 0)
       /\ attempts <= MAX_RETRY + 1
  /\ prog = "nft" =>
       \A t \in TokenIds : \A j, k \in 1 .. Len(tried[t]) :
          j # k => tried[t][j] # tried[t][k]
  /\ OwnershipRun =>
       /\ i % BATCH_SIZE = 0
       /\ (mainPc = "exited" /\ exitCode = 0) => i >= totalSupply

\* C20: every run terminates when each network call eventually returns or
\* fails: queryInChunks moves start strictly forward on every iteration,
\* also after a failed sub-range, never beyond latestBlock, and queries
\* nothing when FROM_BLOCK > latestBlock; safeQueryFilter stops after a
\* bounded number of attempts; processNFT attempts its reads at most once
\* per listed endpoint; the batch loop advances by BATCH_SIZE until
\* totalSupply is reached.
C20_Terminates == <>Terminated /\ []C20_LoopBounds

\* termination alone, with at most one read attempt per position of the
\* endpoint list instead of per endpoint
C20_EventuallyExits ==
  /\ <>Terminated
  /\ [](\A t \in TokenIds : Len(tried[t]) <= Len(RPC_LIST) /\ task[t].i <= Len(RPC_LIST))

====
